---- MODULE Spec2Model ----
(***************************************************************************)
(* Local replica store (database-service.ts) and inbound replication       *)
(* listeners (p2p-service.ts) of the Whisper gossip application.           *)
(*                                                                         *)
(* Every async method is a task that runs from one IndexedDB request to    *)
(* the next; each request (one transaction) is one atomic step, and tasks  *)
(* interleave between their requests.                                      *)
(***************************************************************************)
EXTENDS Integers, FiniteSets, Sequences, TLC

\* ------------------------------------------------------------------ bounds

\* Operations (local calls and overlay deliveries) started in one run.
MaxOps == 2

\* Length of the strings handed to encryptData.
MaxLen == 2

\* The clock runs from 0 to MaxTime, in days; a notification lives SevenDays.
MaxTime == 7

\* ---------------------------------------------------------------- universes

Users == {"A", "B"}

\* The identities whose key pair this node holds (the others are remote).
LocalUsers == {"A"}
PostIds == {"p1"}
CommentIds == {"c1", "c2"}
VoteIds == {"v1", "v2", "v3"}
NotificationIds == {"n1", "n2", "n3", "n4"}

\* Ids that records arriving from the overlay may carry.
RemoteVoteIds == {"v1", "v2"}
Tasks == {1, 2}

\* Stored content: JSON.stringify of an EncryptedData, opaque to the store.
Contents == {"x"}

\* UTF-16 code units of a string: a letter, the byte order mark U+FEFF and a
\* high surrogate with no low surrogate after it.
CodeUnits == {"a", "FEFF", "D800"}
Strings == UNION {[1..n -> CodeUnits] : n \in 0..MaxLen}

\* What the user types into a post or comment form.
Plaintexts == {<<"a">>}

\* Clock readings (Date.now()) that records carry.
Times == {0}

\* 7 * 24 * 60 * 60 * 1000 ms and 24 * 60 * 60 * 1000 ms, in clock units of
\* one day.
SevenDays == 7
OneDay == 1
NoId == "none"

\* Counters carried by a post or comment record that arrives from the overlay.
RemoteCounts == {0}

VARIABLES
  posts,          \* object store 'posts': id -> Post
  comments,       \* object store 'comments': id -> Comment
  votes,          \* object store 'votes': id -> Vote
  notifications,  \* object store 'notifications': id -> Notification
  tasks,          \* in-flight async tasks (calls and listener callbacks)
  everStored,     \* ids that have been inserted into a store at some time
  now,            \* Date.now()
  ops,            \* operations started so far
  log,            \* outcome of the operation that ended last
  p2p,            \* P2PService fields: gun, keys, isInitialized, syncInterval
  disconnected,   \* disconnect() has returned and initialize was not called since
  masterKey,      \* CryptoService.masterKey: the identity it was derived for
  plain,          \* a string handed to encryptData
  envelope,       \* the EncryptedData that encryptData returned last
  opened          \* what decryptData returned last

vars == <<posts, comments, votes, notifications, tasks, everStored, now, ops, log,
          p2p, disconnected, masterKey, plain, envelope, opened>>
tables == <<posts, comments, votes, notifications>>

\* State of the P2P and crypto services, which the store's methods and the
\* listeners' tasks leave alone.
aside == <<p2p, disconnected, masterKey, plain, envelope, opened>>

\* ------------------------------------------------------------------ crypto

\* CryptoService.signData: an ECDSA signature binds the signing key and the
\* signed string; the private key of identity u is modelled as <<"sk", u>>.
PrivateKeyOf(u) == <<"sk", u>>
signData(data, privateKey) == [signer |-> privateKey[2], data |-> data]

\* A signature string that does not decode (missing, truncated, not base64).
MalformedSignature == [signer |-> "none", data |-> <<>>]

verifySignature_ThrowsOnMalformed(data, signature, publicKey) ==
  signature = MalformedSignature
    \/ (signature.signer = publicKey /\ signature.data = data)

\* CryptoService.verifySignature: true iff the signature was made by the key
\* over exactly this string; every failure inside is caught and gives false.
verifySignature(data, signature, publicKey) ==
  /\ signature # MalformedSignature
  /\ signature.signer = publicKey
  /\ signature.data = data

\* CryptoService.masterKey is null until initializeMasterKey has run; the key
\* derived from identity u's private key is modelled by u.
NoKey == "none"
initializeMasterKey(privateKey) == privateKey[2]

\* new TextEncoder().encode(s): UTF-8 of the string, an unpaired surrogate
\* replaced by U+FFFD.
TextEncode(s) == [i \in 1..Len(s) |-> IF s[i] = "D800" THEN "FFFD" ELSE s[i]]

\* new TextDecoder().decode(bytes): a leading byte order mark is dropped.
TextDecode(bytes) ==
  IF Len(bytes) > 0 /\ bytes[1] = "FEFF" THEN Tail(bytes) ELSE bytes

NoEnvelope == [ok |-> FALSE, key |-> NoKey, ciphertext |-> <<>>]
NotOpened == [ok |-> FALSE, text |-> <<>>]

encryptData_NoKeyCheck(data, key) ==
  [ok |-> TRUE, key |-> key, ciphertext |-> TextEncode(data)]

\* CryptoService.encryptData: throws without a master key; else the data key
\* wrapped under the master key, and the encoded string under the data key.
encryptData(data, key) ==
  IF key = NoKey THEN NoEnvelope
  ELSE [ok |-> TRUE, key |-> key, ciphertext |-> TextEncode(data)]

\* CryptoService.decryptData: throws without a master key or when AES-GCM
\* cannot unwrap the data key with it; else the decoded string.
decryptData(encryptedData, key) ==
  IF key = NoKey \/ ~encryptedData.ok \/ encryptedData.key # key THEN NotOpened
  ELSE [ok |-> TRUE, text |-> TextDecode(encryptedData.ciphertext)]

\* JSON.stringify(encryptedData): the content a post or comment stores.
Stringify(encryptedData) == "x"

\* The strings handed to signData / verifySignature (JSON.stringify of the
\* signed fields, in the order the code lists them).
PostPayload(d) == <<d.id, d.authorPublicKey, d.content, d.timestamp>>
CommentPayload(d) ==
  <<d.id, d.postId, d.parentCommentId, d.authorPublicKey, d.content, d.timestamp>>
VotePayload(d) ==
  <<d.id, d.targetId, d.targetType, d.authorPublicKey, d.value, d.timestamp>>

\* ------------------------------------------------------------ object stores

EmptyStore == [i \in {} |-> 0]
NoRec == [id |-> NoId]

\* store.get(id): the record, or null.
getItem(store, id) == IF id \in DOMAIN store THEN store[id] ELSE NoRec

\* store.put(item)
PutRec(store, item) ==
  [i \in DOMAIN store \cup {item.id} |-> IF i = item.id THEN item ELSE store[i]]

\* store.delete(id): succeeds whether or not the key is present.
DeleteRec(store, id) == [i \in DOMAIN store \ {id} |-> store[i]]

\* Key of the 'unique_vote' index.
UniqueVoteKey(v) == <<v.targetId, v.targetType, v.authorPublicKey>>

UniqueVoteFree_NotUnique(store, item) == TRUE

\* The { unique: true } constraint of 'unique_vote': no other record of the
\* store has the item's index key.
UniqueVoteFree(store, item) ==
  \A i \in DOMAIN store :
    i # item.id => UniqueVoteKey(store[i]) # UniqueVoteKey(item)

CanAdd_Put(store, item) == TRUE

\* store.add(item) succeeds iff the key is new (and, for votes, the unique
\* index admits it).
CanAdd(store, item) == item.id \notin DOMAIN store
CanAddVote_KeyOnly(store, item) == CanAdd(store, item)
CanAddVote(store, item) == CanAdd(store, item) /\ UniqueVoteFree(store, item)

\* getItemsByIndex('votes', 'unique_vote', only([targetId, targetType, author]))
ExistingVotes(targetId, targetType, authorPublicKey) ==
  {votes[i] : i \in {j \in DOMAIN votes :
      UniqueVoteKey(votes[j]) = <<targetId, targetType, authorPublicKey>>}}

StoreNameOf(targetType) == IF targetType = "post" THEN "posts" ELSE "comments"
StoreOf(name) == IF name = "posts" THEN posts ELSE comments

ApplyVoteCount_UpvotesOnly(target, value) ==
  [target EXCEPT !.upvotes = @ + (IF value < 0 THEN -value ELSE value)]

ApplyVoteCount_TouchesTimestamp(target, value) ==
  IF value > 0
    THEN [target EXCEPT !.upvotes = @ + value, !.timestamp = @ + 1]
    ELSE [target EXCEPT !.downvotes = @ + (IF value < 0 THEN -value ELSE value),
                        !.timestamp = @ + 1]

\* updateVoteCount's change to the record it read.
ApplyVoteCount(target, value) ==
  IF value > 0
    THEN [target EXCEPT !.upvotes = @ + value]
    ELSE [target EXCEPT !.downvotes = @ + (IF value < 0 THEN -value ELSE value)]

\* ------------------------------------------------------------------- tasks

Idle == [op |-> "idle", pc |-> "idle", arg |-> NoRec, loc |-> NoRec]

\* A new task takes the lowest free slot.
FreeSlot(t) ==
  /\ tasks[t] = Idle
  /\ \A u \in Tasks : u < t => tasks[u] # Idle
  /\ ops < MaxOps

Finish(t, outcome) ==
  /\ tasks' = [tasks EXCEPT ![t] = Idle]
  /\ log' = outcome

Goto(t, pc, loc) ==
  /\ tasks' = [tasks EXCEPT ![t].pc = pc, ![t].loc = loc]
  /\ UNCHANGED log

SoftFailure_Rethrows(t) ==
  /\ tasks' = [tasks EXCEPT ![t].pc = "thrown"]
  /\ log' = "thrown"

\* The catch that wraps a listener's body: the error is logged and the
\* callback returns.
SoftFailure(t) == Finish(t, "error")

\* -------------------------------------------------------------------- Init

\* The database is persistent: it opens empty, or holding a post that an
\* earlier session created or ingested.
SeedPost(authorPublicKey) ==
  LET unsigned == [id |-> "p1", authorPublicKey |-> authorPublicKey,
                   content |-> "x", timestamp |-> 0]
  IN [id |-> "p1", authorPublicKey |-> authorPublicKey, content |-> "x",
      timestamp |-> 0, upvotes |-> 0, downvotes |-> 0, commentCount |-> 0,
      signature |-> signData(PostPayload(unsigned), PrivateKeyOf(authorPublicKey))]

Init ==
  /\ posts \in {EmptyStore} \cup {PutRec(EmptyStore, SeedPost(u)) : u \in Users}
  /\ comments = EmptyStore
  /\ votes = EmptyStore
  /\ notifications = EmptyStore
  /\ tasks = [t \in Tasks |-> Idle]
  /\ everStored = DOMAIN posts
  /\ now = 0
  /\ ops = 0
  /\ log = "none"
  /\ p2p = [userPublicKey |-> NoId, isInitialized |-> FALSE,
            syncInterval |-> FALSE, listeners |-> 0]
  /\ disconnected = FALSE
  /\ masterKey = NoKey
  /\ plain = <<>>
  /\ envelope = NoEnvelope
  /\ opened = NotOpened

\* Ids that a stored record or a running task refers to.
TaskRefs(task) ==
  IF task.op \in {"addVote", "onVote"} THEN {task.arg.targetId}
  ELSE IF task.op \in {"addComment", "onComment"}
    THEN {task.arg.postId, task.arg.parentCommentId}
  ELSE {}

Referenced ==
  {votes[i].targetId : i \in DOMAIN votes}
    \cup {comments[i].postId : i \in DOMAIN comments}
    \cup {comments[i].parentCommentId : i \in DOMAIN comments}
    \cup UNION {TaskRefs(tasks[t]) : t \in Tasks}

\* crypto.randomUUID(): an id that no record has ever had, so one that no
\* record refers to either.
FreshIds(ids) == ids \ (everStored \cup Referenced)
randomUUID(ids) == CHOOSE i \in FreshIds(ids) : TRUE

\* ---------------------------------------------------- DatabaseService.addVote

FlippedVote_KeepsValue(existingVote, value, timestamp) ==
  [existingVote EXCEPT !.timestamp = timestamp]

\* existingVote.value = value; existingVote.timestamp = Date.now()
FlippedVote(existingVote, value, timestamp) ==
  [existingVote EXCEPT !.value = value, !.timestamp = timestamp]

\* The call, up to the end of the 'unique_vote' lookup and the branch on it.
CastVote(t, targetId, targetType, value, authorPublicKey) ==
  /\ FreeSlot(t)
  /\ ops' = ops + 1
  /\ LET existingVotes == ExistingVotes(targetId, targetType, authorPublicKey)
         arg == [targetId |-> targetId, targetType |-> targetType,
                 value |-> value, authorPublicKey |-> authorPublicKey]
         start(pc, vote, delta) ==
           tasks' = [tasks EXCEPT ![t] =
             [op |-> "addVote", pc |-> pc, arg |-> arg,
              loc |-> [vote |-> vote, delta |-> delta, target |-> NoRec]]]
     IN IF existingVotes # {}
          THEN LET existingVote == CHOOSE v \in existingVotes : TRUE
               IN IF existingVote.value = value
                    THEN start("av_delete", existingVote, -value)
                    ELSE start("uvc_get", FlippedVote(existingVote, value, now),
                               value * 2)
          ELSE start("av_add", NoRec, value)
  /\ UNCHANGED <<tables, everStored, now, aside, log>>

\* Same value again: deleteItem('votes', existingVote.id).
AddVoteDelete(t) ==
  /\ tasks[t].op = "addVote" /\ tasks[t].pc = "av_delete"
  /\ votes' = DeleteRec(votes, tasks[t].loc.vote.id)
  /\ Goto(t, "uvc_get", tasks[t].loc)
  /\ UNCHANGED <<posts, comments, notifications, everStored, now, aside, ops>>

\* No vote yet: build, sign and addItem('votes', voteData).
AddVoteAdd(t) ==
  /\ tasks[t].op = "addVote" /\ tasks[t].pc = "av_add"
  /\ FreshIds(VoteIds) # {}
  /\ LET a == tasks[t].arg
         unsigned == [id |-> randomUUID(VoteIds), targetId |-> a.targetId,
                      targetType |-> a.targetType,
                      authorPublicKey |-> a.authorPublicKey,
                      value |-> a.value, timestamp |-> now]
         voteData == [id |-> unsigned.id, targetId |-> unsigned.targetId,
                      targetType |-> unsigned.targetType,
                      authorPublicKey |-> unsigned.authorPublicKey,
                      value |-> unsigned.value, timestamp |-> unsigned.timestamp,
                      signature |-> signData(VotePayload(unsigned),
                                             PrivateKeyOf(a.authorPublicKey))]
     IN IF CanAddVote(votes, voteData)
          THEN /\ votes' = PutRec(votes, voteData)
               /\ everStored' = everStored \cup {voteData.id}
               /\ Goto(t, "uvc_get", [tasks[t].loc EXCEPT !.vote = voteData])
          ELSE /\ Finish(t, "failed")
               /\ UNCHANGED <<votes, everStored>>
  /\ UNCHANGED <<posts, comments, notifications, now, aside, ops>>

\* updateVoteCount, first half: getItem(storeName, targetId); a missing target
\* throws, which ends addVote with an error and the votes listener in its catch.
UpdateVoteCountGet(t) ==
  /\ tasks[t].op \in {"addVote", "onVote"} /\ tasks[t].pc = "uvc_get"
  /\ LET a == tasks[t].arg
         target == getItem(StoreOf(StoreNameOf(a.targetType)), a.targetId)
     IN IF target = NoRec
          THEN IF tasks[t].op = "addVote" THEN Finish(t, "failed")
               ELSE SoftFailure(t)
          ELSE Goto(t, "uvc_put", [tasks[t].loc EXCEPT !.target = target])
  /\ UNCHANGED <<tables, everStored, now, aside, ops>>

AfterVoteCount_NotifiesDownvote(t) ==
  IF tasks[t].op = "onVote" THEN "end"
  ELSE IF tasks[t].loc.delta = -tasks[t].arg.value THEN "end"
  ELSE IF tasks[t].loc.delta = 2 * tasks[t].arg.value THEN "av_put"
  ELSE "nv_get"

\* Where addVote / the votes listener continue once updateVoteCount returned.
AfterVoteCount(t) ==
  IF tasks[t].op = "onVote" THEN "end"
  ELSE IF tasks[t].loc.delta = -tasks[t].arg.value THEN "end"
  ELSE IF tasks[t].loc.delta = 2 * tasks[t].arg.value THEN "av_put"
  ELSE IF tasks[t].arg.value = 1 THEN "nv_get"
  ELSE "end"

WrittenBack_Reread(t) ==
  ApplyVoteCount(getItem(StoreOf(StoreNameOf(tasks[t].arg.targetType)),
                         tasks[t].arg.targetId),
                 tasks[t].loc.delta)

\* updateVoteCount: the record handed to updateItem is the one getItem
\* returned, with the counter changed.
WrittenBack(t) == ApplyVoteCount(tasks[t].loc.target, tasks[t].loc.delta)

\* updateVoteCount, second half: updateItem(storeName, target) writes back the
\* record that was read, with the counter changed.
UpdateVoteCountPut(t) ==
  /\ tasks[t].op \in {"addVote", "onVote"} /\ tasks[t].pc = "uvc_put"
  /\ LET a == tasks[t].arg
         target == WrittenBack(t)
         next == AfterVoteCount(t)
     IN /\ IF StoreNameOf(a.targetType) = "posts"
             THEN posts' = PutRec(posts, target) /\ UNCHANGED comments
             ELSE comments' = PutRec(comments, target) /\ UNCHANGED posts
        /\ IF next = "end" THEN Finish(t, "ok")
           ELSE Goto(t, next, tasks[t].loc)
  /\ UNCHANGED <<votes, notifications, everStored, now, aside, ops>>

\* Opposite value: updateItem('votes', existingVote) with the new value and
\* timestamp (the signature is the one the record already had).
AddVotePut(t) ==
  /\ tasks[t].op = "addVote" /\ tasks[t].pc = "av_put"
  /\ IF UniqueVoteFree(votes, tasks[t].loc.vote)
       THEN /\ votes' = PutRec(votes, tasks[t].loc.vote)
            /\ Finish(t, "ok")
       ELSE /\ Finish(t, "failed")
            /\ UNCHANGED votes
  /\ UNCHANGED <<posts, comments, notifications, everStored, now, aside, ops>>

\* createNotificationForVote, up to its getItem: no target or a self-vote
\* creates nothing.
NotifyVoteGet(t) ==
  /\ tasks[t].op = "addVote" /\ tasks[t].pc = "nv_get"
  /\ LET vote == tasks[t].loc.vote
         target == getItem(StoreOf(StoreNameOf(vote.targetType)), vote.targetId)
     IN IF target = NoRec \/ target.authorPublicKey = vote.authorPublicKey
          THEN Finish(t, "ok")
          ELSE Goto(t, "nv_add", [tasks[t].loc EXCEPT !.target = target])
  /\ UNCHANGED <<tables, everStored, now, aside, ops>>

\* createNotificationForVote: addItem('notifications', notification).
NotifyVoteAdd(t) ==
  /\ tasks[t].op = "addVote" /\ tasks[t].pc = "nv_add"
  /\ FreshIds(NotificationIds) # {}
  /\ LET vote == tasks[t].loc.vote
         notification ==
           [id |-> randomUUID(NotificationIds),
            recipientPublicKey |-> tasks[t].loc.target.authorPublicKey,
            sourcePublicKey |-> vote.authorPublicKey,
            targetId |-> vote.targetId, targetType |-> vote.targetType,
            action |-> "upvote", isRead |-> FALSE,
            timestamp |-> now, expiresAt |-> now + SevenDays]
     IN /\ notifications' = PutRec(notifications, notification)
        /\ everStored' = everStored \cup {notification.id}
  /\ Finish(t, "ok")
  /\ UNCHANGED <<posts, comments, votes, now, aside, ops>>


\* ------------------------------------------- DatabaseService.addPost

\* CreatePost.handleSubmit, up to the return of db.addPost: encrypt, sign and
\* addItem('posts', postData). Without a master key encryptData throws and
\* the handler ends in its catch.
AddPost(t, content, authorPublicKey) ==
  /\ FreeSlot(t)
  /\ ops' = ops + 1
  /\ LET encryptedData == encryptData(content, masterKey)
         unsigned == [id |-> randomUUID(PostIds),
                      authorPublicKey |-> authorPublicKey,
                      content |-> Stringify(encryptedData), timestamp |-> now]
         postData == [id |-> unsigned.id,
                      authorPublicKey |-> authorPublicKey,
                      content |-> unsigned.content, timestamp |-> now,
                      upvotes |-> 0, downvotes |-> 0, commentCount |-> 0,
                      signature |-> signData(PostPayload(unsigned),
                                             PrivateKeyOf(authorPublicKey))]
     IN IF ~encryptedData.ok
          THEN /\ log' = "failed"
               /\ UNCHANGED <<posts, everStored, tasks>>
          ELSE /\ FreshIds(PostIds) # {}
               /\ posts' = PutRec(posts, postData)
               /\ everStored' = everStored \cup {postData.id}
               /\ tasks' = [tasks EXCEPT ![t] =
                    [op |-> "addPost", pc |-> "publish", arg |-> postData,
                     loc |-> [vote |-> NoRec, delta |-> 0, target |-> NoRec]]]
               /\ UNCHANGED log
  /\ UNCHANGED <<comments, votes, notifications, now, aside>>

\* ---------------------------------------- DatabaseService.addComment

\* The call, up to addItem('comments', commentData).
AddComment(t, postId, content, authorPublicKey, parentCommentId) ==
  /\ FreeSlot(t)
  /\ ops' = ops + 1
  /\ LET encryptedData == encryptData(content, masterKey)
         unsigned == [id |-> randomUUID(CommentIds \ {parentCommentId}),
                      postId |-> postId,
                      parentCommentId |-> parentCommentId,
                      authorPublicKey |-> authorPublicKey,
                      content |-> Stringify(encryptedData), timestamp |-> now]
         commentData == [id |-> unsigned.id, postId |-> postId,
                         parentCommentId |-> parentCommentId,
                         authorPublicKey |-> authorPublicKey,
                         content |-> unsigned.content, timestamp |-> now,
                         upvotes |-> 0, downvotes |-> 0,
                         signature |-> signData(CommentPayload(unsigned),
                                                PrivateKeyOf(authorPublicKey))]
     IN IF ~encryptedData.ok
          THEN /\ log' = "failed"
               /\ UNCHANGED <<comments, everStored, tasks>>
          ELSE /\ FreshIds(CommentIds \ {parentCommentId}) # {}
               /\ comments' = PutRec(comments, commentData)
               /\ everStored' = everStored \cup {commentData.id}
               /\ tasks' = [tasks EXCEPT ![t] =
                    [op |-> "addComment", pc |-> "cc_get", arg |-> commentData,
                     loc |-> [vote |-> NoRec, delta |-> 0, target |-> NoRec]]]
               /\ UNCHANGED log
  /\ UNCHANGED <<posts, votes, notifications, now, aside>>

\* Comment count, first half: getPost(postId). Shared by addComment and the
\* comments listener; without the post the count is skipped.
CommentCountGet(t) ==
  /\ tasks[t].op \in {"addComment", "onComment"} /\ tasks[t].pc = "cc_get"
  /\ LET post == getItem(posts, tasks[t].arg.postId)
     IN IF post # NoRec
          THEN Goto(t, "cc_put", [tasks[t].loc EXCEPT !.target = post])
          ELSE IF tasks[t].op = "addComment"
                 THEN Goto(t, "nr_get", tasks[t].loc)
                 ELSE Finish(t, "ok")
  /\ UNCHANGED <<tables, everStored, now, aside, ops>>

CountedComment_Unchanged(post) == post

\* post.commentCount += 1
CountedComment(post) == [post EXCEPT !.commentCount = @ + 1]

\* Comment count, second half: post.commentCount += 1; updateItem('posts', post).
CommentCountPut(t) ==
  /\ tasks[t].op \in {"addComment", "onComment"} /\ tasks[t].pc = "cc_put"
  /\ posts' = PutRec(posts, CountedComment(tasks[t].loc.target))
  /\ IF tasks[t].op = "addComment"
       THEN Goto(t, "nr_get", tasks[t].loc)
       ELSE Finish(t, "ok")
  /\ UNCHANGED <<comments, votes, notifications, everStored, now, aside, ops>>

ReplyParent_AlwaysPost(comment) == getItem(posts, comment.postId)

\* createNotificationForReply: the record whose author is notified, the
\* parent comment for a nested reply, else the post.
ReplyParent(comment) ==
  IF comment.parentCommentId # NoId
    THEN getItem(comments, comment.parentCommentId)
    ELSE getItem(posts, comment.postId)

\* createNotificationForReply, up to its getItem: no parent or a self-reply
\* creates nothing.
NotifyReplyGet(t) ==
  /\ tasks[t].op = "addComment" /\ tasks[t].pc = "nr_get"
  /\ LET comment == tasks[t].arg
         parent == ReplyParent(comment)
     IN IF parent # NoRec /\ parent.authorPublicKey # comment.authorPublicKey
          THEN Goto(t, "nr_add", [tasks[t].loc EXCEPT !.target = parent])
          ELSE Goto(t, "publish", tasks[t].loc)
  /\ UNCHANGED <<tables, everStored, now, aside, ops>>

\* createNotificationForReply: addItem('notifications', notification).
NotifyReplyAdd(t) ==
  /\ tasks[t].op = "addComment" /\ tasks[t].pc = "nr_add"
  /\ FreshIds(NotificationIds) # {}
  /\ LET comment == tasks[t].arg
         nested == comment.parentCommentId # NoId
         notification ==
           [id |-> randomUUID(NotificationIds),
            recipientPublicKey |-> tasks[t].loc.target.authorPublicKey,
            sourcePublicKey |-> comment.authorPublicKey,
            targetId |-> IF nested THEN comment.parentCommentId ELSE comment.postId,
            targetType |-> IF nested THEN "comment" ELSE "post",
            action |-> "reply", isRead |-> FALSE,
            timestamp |-> now, expiresAt |-> now + SevenDays]
     IN /\ notifications' = PutRec(notifications, notification)
        /\ everStored' = everStored \cup {notification.id}
  /\ Goto(t, "publish", tasks[t].loc)
  /\ UNCHANGED <<posts, comments, votes, now, aside, ops>>

\* ------------------------------------------------------------ P2PService

\* initialize, up to its first await: disconnect() if initialized, keep the
\* keys, mark the user online and register the listeners; startListening
\* adds one .on() callback to each of 'posts', 'comments' and 'votes'.
InitializeEntry(publicKey) ==
  [userPublicKey |-> publicKey, isInitialized |-> FALSE,
   syncInterval |-> IF p2p.isInitialized THEN FALSE ELSE p2p.syncInterval,
   listeners |-> (IF p2p.isInitialized THEN 0 ELSE p2p.listeners) + 1]

\* App.initializeApp / handleAuthentication: p2p.initialize(publicKey, ...).
Initialize(t, publicKey) ==
  /\ FreeSlot(t)
  /\ ops' = ops + 1
  /\ p2p' = InitializeEntry(publicKey)
  /\ disconnected' = FALSE
  /\ tasks' = [tasks EXCEPT ![t] =
       [op |-> "initialize", pc |-> "init_listen", arg |-> [id |-> publicKey],
        loc |-> [vote |-> NoRec, delta |-> 0, target |-> NoRec]]]
  /\ UNCHANGED <<tables, everStored, now, log, masterKey, plain, envelope, opened>>

\* initialize resumes after 'await this.startListening()' and runs
\* syncLocalDataToNetwork up to one of its awaits.
InitializeListen(t) ==
  /\ tasks[t].pc = "init_listen"
  /\ Goto(t, "init_sync", tasks[t].loc)
  /\ UNCHANGED <<tables, everStored, now, ops, aside>>

\* initialize resumes after the sync: isInitialized = true and the periodic
\* sync timer is armed. Inside publishPost / publishComment the record is then
\* put on the overlay.
InitializeSync(t) ==
  /\ tasks[t].pc = "init_sync"
  /\ p2p' = [p2p EXCEPT !.isInitialized = TRUE, !.syncInterval = TRUE]
  /\ Finish(t, "ok")
  /\ UNCHANGED <<tables, everStored, now, ops, disconnected, masterKey, plain,
                 envelope, opened>>

\* disconnect(): listeners off, timer cleared, isInitialized = false.
Disconnect ==
  /\ p2p' = [p2p EXCEPT !.isInitialized = FALSE, !.syncInterval = FALSE,
                         !.listeners = 0]
  /\ disconnected' = TRUE
  /\ UNCHANGED <<tables, tasks, everStored, now, ops, log, masterKey, plain,
                 envelope, opened>>

\* What is left of the store after the handler's catch of a failed publish:
\* the catch only sets the form's error message.
AfterPublishFailure_RollsBack(store, item) == DeleteRec(store, item.id)

AfterPublishFailure(store, item) == store

\* publishPost / publishComment, called by the form handler with the record
\* that addPost / addComment returned: put it on the overlay, initializing
\* first when not initialized, or throw when no keys were ever given.
Publish(t) ==
  /\ tasks[t].op \in {"addPost", "addComment"} /\ tasks[t].pc = "publish"
  /\ IF p2p.isInitialized
       THEN /\ Finish(t, "ok")
            /\ UNCHANGED <<tables, p2p, disconnected>>
     ELSE IF p2p.userPublicKey # NoId
       THEN /\ p2p' = InitializeEntry(p2p.userPublicKey)
            /\ disconnected' = FALSE
            /\ Goto(t, "init_listen", tasks[t].loc)
            /\ UNCHANGED tables
     ELSE /\ Finish(t, "publish_failed")
          /\ posts' = IF tasks[t].op = "addPost"
                        THEN AfterPublishFailure(posts, tasks[t].arg) ELSE posts
          /\ comments' = IF tasks[t].op = "addComment"
                           THEN AfterPublishFailure(comments, tasks[t].arg)
                           ELSE comments
          /\ UNCHANGED <<votes, notifications, p2p, disconnected>>
  /\ UNCHANGED <<everStored, now, ops, masterKey, plain, envelope, opened>>

\* getItemsByIndex('posts', 'byTimestamp', IDBKeyRange.lowerBound(oneDayAgo)):
\* the posts of the last 24 hours, whoever wrote them.
RecentPosts(store, time) ==
  {store[i] : i \in {j \in DOMAIN store : store[j].timestamp >= time - OneDay}}

\* periodicSync, fired by the timer that initialize arms: nothing when the
\* service is not initialized, else the query of the recent posts.
PeriodicSync(t) ==
  /\ p2p.syncInterval
  /\ FreeSlot(t)
  /\ ops' = ops + 1
  /\ IF ~p2p.isInitialized \/ RecentPosts(posts, now) = {}
       THEN /\ log' = IF p2p.isInitialized THEN "synced" ELSE "sync_skipped"
            /\ UNCHANGED tasks
       ELSE /\ tasks' = [tasks EXCEPT ![t] =
                 [op |-> "periodicSync", pc |-> "sync_put",
                  arg |-> [id |-> p2p.userPublicKey],
                  loc |-> [list |-> RecentPosts(posts, now), sent |-> NoRec]]]
            /\ UNCHANGED log
  /\ UNCHANGED <<tables, everStored, now, aside>>

\* One gun.get('posts').get(post.id).put(post) of the loop, and its delay.
PeriodicSyncPut(t) ==
  /\ tasks[t].op = "periodicSync" /\ tasks[t].pc = "sync_put"
  /\ LET post == CHOOSE p \in tasks[t].loc.list : TRUE
         rest == tasks[t].loc.list \ {post}
     IN IF rest # {}
          THEN Goto(t, "sync_put", [list |-> rest, sent |-> post])
          ELSE Goto(t, "sync_end", [list |-> rest, sent |-> post])
  /\ UNCHANGED <<tables, everStored, now, aside, ops>>

\* The loop is over: periodicSync logs the count and returns.
PeriodicSyncEnd(t) ==
  /\ tasks[t].op = "periodicSync" /\ tasks[t].pc = "sync_end"
  /\ Finish(t, "synced")
  /\ UNCHANGED <<tables, everStored, now, aside, ops>>

\* --------------------------------------------------------- CryptoService

\* AuthService.initialize / handleAuthentication: initializeMasterKey.
DeriveMasterKey(u) ==
  /\ masterKey' = initializeMasterKey(PrivateKeyOf(u))
  /\ log' = "key"
  /\ UNCHANGED <<tables, tasks, everStored, now, ops, p2p, disconnected, plain,
                 envelope, opened>>

\* encryptData(s) for a string s.
EncryptData(s) ==
  /\ plain' = s
  /\ LET encryptedData == encryptData(s, masterKey)
     IN IF encryptedData.ok
          THEN envelope' = encryptedData /\ log' = "encrypted"
          ELSE envelope' = NoEnvelope /\ log' = "encrypt_failed"
  /\ opened' = NotOpened
  /\ UNCHANGED <<tables, tasks, everStored, now, ops, p2p, disconnected, masterKey>>

\* decryptData of the envelope that encryptData returned.
DecryptData ==
  /\ envelope.ok
  /\ opened' = decryptData(envelope, masterKey)
  /\ log' = IF opened'.ok THEN "decrypted" ELSE "decrypt_failed"
  /\ UNCHANGED <<tables, tasks, everStored, now, ops, p2p, disconnected, masterKey,
                 plain, envelope>>

\* --------------------------------------- records the overlay can deliver

\* The signatures a delivered record may carry: the author's over the record's
\* own fields, the author's over other content, another key's, or garbage.
SignatureChoices(payload, otherPayload, authorPublicKey) ==
  {signData(payload, PrivateKeyOf(authorPublicKey)),
   signData(otherPayload, PrivateKeyOf(authorPublicKey)),
   MalformedSignature}
  \cup {signData(payload, PrivateKeyOf(u)) : u \in Users \ {authorPublicKey}}

WithSignature(d, signature) ==
  [x \in DOMAIN d \cup {"signature"} |-> IF x = "signature" THEN signature ELSE d[x]]

VoteTargets == {<<"p1", "post">>, <<"c1", "comment">>}

\* (id, parentCommentId) of the comments that arrive: a top-level comment and
\* a reply to it.
RemoteThreads == {<<"c1", NoId>>, <<"c2", "c1">>}

InboundPosts ==
  UNION {
    {WithSignature(d, s) :
       s \in SignatureChoices(PostPayload(d),
                              PostPayload([d EXCEPT !.content = "tampered"]),
                              d.authorPublicKey)} :
    d \in [id : PostIds, authorPublicKey : Users, content : Contents,
           timestamp : Times, upvotes : RemoteCounts, downvotes : RemoteCounts,
           commentCount : RemoteCounts]}

InboundComments ==
  UNION {
    {WithSignature(d, s) :
       s \in SignatureChoices(CommentPayload(d),
                              CommentPayload([d EXCEPT !.content = "tampered"]),
                              d.authorPublicKey)} :
    d \in {c \in [id : CommentIds, postId : PostIds,
                  parentCommentId : CommentIds \cup {NoId},
                  authorPublicKey : Users, content : Contents,
                  timestamp : Times, upvotes : RemoteCounts,
                  downvotes : RemoteCounts] :
             <<c.id, c.parentCommentId>> \in RemoteThreads}}


InboundVotes ==
  UNION {
    {WithSignature(d, s) :
       s \in SignatureChoices(VotePayload(d),
                              VotePayload([d EXCEPT !.value = -d.value]),
                              d.authorPublicKey)} :
    d \in {v \in [id : RemoteVoteIds, targetId : PostIds \cup CommentIds,
                  targetType : {"post", "comment"}, authorPublicKey : Users,
                  value : {1, -1}, timestamp : Times] :
             <<v.targetId, v.targetType>> \in VoteTargets}}

\* ------------------------------------- P2PService.startListening callbacks

Screen_NoDedupe(store, data, payload) ==
  IF data = NoRec THEN "empty"
  ELSE IF ~verifySignature(payload, data.signature, data.authorPublicKey)
    THEN "invalid"
  ELSE "add"

\* What a listener does with a record before its addItem: return on empty
\* data or data without an id, skip a known id, drop a record whose signature
\* does not verify, else go on to store it.
Screen(store, data, payload) ==
  IF data = NoRec THEN "empty"
  ELSE IF getItem(store, data.id) # NoRec THEN "exists"
  ELSE IF ~verifySignature(payload, data.signature, data.authorPublicKey)
    THEN "invalid"
  ELSE "add"

Deliver(t, op, data, verdict) ==
  /\ FreeSlot(t)
  /\ IF verdict = "add"
       THEN /\ tasks' = [tasks EXCEPT ![t] =
                 [op |-> op, pc |-> "on_add", arg |-> data,
                  loc |-> [vote |-> NoRec, delta |-> 0, target |-> NoRec]]]
            /\ ops' = ops + 1
            /\ UNCHANGED log
       ELSE /\ log' = verdict
            /\ UNCHANGED <<tasks, ops>>
  /\ UNCHANGED <<tables, everStored, now, aside>>

\* posts listener, up to the signature check.
DeliverPost(t, data) == Deliver(t, "onPost", data, Screen(posts, data, PostPayload(data)))

\* posts listener: addItem('posts', data).
OnPostAdd(t) ==
  /\ tasks[t].op = "onPost" /\ tasks[t].pc = "on_add"
  /\ IF CanAdd(posts, tasks[t].arg)
       THEN /\ posts' = PutRec(posts, tasks[t].arg)
            /\ everStored' = everStored \cup {tasks[t].arg.id}
            /\ Finish(t, "ok")
       ELSE /\ SoftFailure(t)
            /\ UNCHANGED <<posts, everStored>>
  /\ UNCHANGED <<comments, votes, notifications, now, aside, ops>>

\* comments listener, up to the signature check.
DeliverComment(t, data) ==
  Deliver(t, "onComment", data, Screen(comments, data, CommentPayload(data)))

\* comments listener: addItem('comments', data).
OnCommentAdd(t) ==
  /\ tasks[t].op = "onComment" /\ tasks[t].pc = "on_add"
  /\ IF CanAdd(comments, tasks[t].arg)
       THEN /\ comments' = PutRec(comments, tasks[t].arg)
            /\ everStored' = everStored \cup {tasks[t].arg.id}
            /\ Goto(t, "cc_get", tasks[t].loc)
       ELSE /\ SoftFailure(t)
            /\ UNCHANGED <<comments, everStored>>
  /\ UNCHANGED <<posts, votes, notifications, now, aside, ops>>

\* votes listener, up to the signature check.
DeliverVote(t, data) == Deliver(t, "onVote", data, Screen(votes, data, VotePayload(data)))

\* votes listener: addItem('votes', data), then updateVoteCount(data.value).
OnVoteAdd(t) ==
  /\ tasks[t].op = "onVote" /\ tasks[t].pc = "on_add"
  /\ IF CanAddVote(votes, tasks[t].arg)
       THEN /\ votes' = PutRec(votes, tasks[t].arg)
            /\ everStored' = everStored \cup {tasks[t].arg.id}
            /\ Goto(t, "uvc_get", [tasks[t].loc EXCEPT !.vote = tasks[t].arg,
                                                       !.delta = tasks[t].arg.value])
       ELSE /\ SoftFailure(t)
            /\ UNCHANGED <<votes, everStored>>
  /\ UNCHANGED <<posts, comments, notifications, now, aside, ops>>


\* ------------------------------------------- DatabaseService notifications

\* getNotifications(userPublicKey): the 'byRecipient' index, every entry of it.
getNotifications(userPublicKey) ==
  {notifications[n] : n \in {i \in DOMAIN notifications :
                               notifications[i].recipientPublicKey = userPublicKey}}

ExpiredIds_Exclusive(store, time) ==
  {i \in DOMAIN store : store[i].expiresAt < time}

\* getItemsByIndex('notifications', 'byExpiration', IDBKeyRange.upperBound(now)),
\* as ids: the upper bound is included.
ExpiredIds(store, time) ==
  {i \in DOMAIN store : store[i].expiresAt <= time}

\* cleanupExpiredNotifications, up to the result of its query at Date.now();
\* with nothing expired the loop is empty and the call returns.
CleanupExpiredNotifications(t) ==
  /\ FreeSlot(t)
  /\ LET list == ExpiredIds(notifications, now)
     IN IF list = {}
          THEN Finish(t, "clean")
          ELSE /\ tasks' = [tasks EXCEPT ![t] =
                    [op |-> "cleanup", pc |-> "sweep_del", arg |-> [id |-> NoId],
                     loc |-> [now |-> now, list |-> list]]]
               /\ UNCHANGED log
  /\ UNCHANGED <<tables, everStored, now, aside, ops>>

\* One deleteItem('notifications', notification.id) of the loop.
CleanupDelete(t) ==
  /\ tasks[t].op = "cleanup" /\ tasks[t].pc = "sweep_del"
  /\ LET id == CHOOSE i \in tasks[t].loc.list : TRUE
         rest == tasks[t].loc.list \ {id}
     IN /\ notifications' = DeleteRec(notifications, id)
        /\ IF rest # {}
             THEN Goto(t, "sweep_del", [tasks[t].loc EXCEPT !.list = rest])
             ELSE Finish(t, "swept")
  /\ UNCHANGED <<posts, comments, votes, everStored, now, aside, ops>>

\* Date.now() moves on.
Tick ==
  /\ now < MaxTime
  /\ now' = now + 1
  /\ UNCHANGED <<tables, tasks, everStored, ops, log, aside>>

\* --------------------------------- DatabaseService.deleteAllUserData

PurgeStages == <<"posts", "comments", "votes", "notifications">>

\* getItemsByIndex(stage, 'byAuthor' / 'byRecipient', userPublicKey), as ids.
OwnedIds(stage, userPublicKey) ==
  IF stage = "posts"
    THEN {i \in DOMAIN posts : posts[i].authorPublicKey = userPublicKey}
  ELSE IF stage = "comments"
    THEN {i \in DOMAIN comments : comments[i].authorPublicKey = userPublicKey}
  ELSE IF stage = "votes"
    THEN {i \in DOMAIN votes : votes[i].authorPublicKey = userPublicKey}
  ELSE {i \in DOMAIN notifications :
          notifications[i].recipientPublicKey = userPublicKey}

\* The task after the query of stage k returned `list`: delete its items, or
\* with none go on to the next query, or return after the last stage.
AfterPurgeQuery(t, userPublicKey, k, list) ==
  IF list # {}
    THEN /\ tasks' = [tasks EXCEPT ![t] =
              [op |-> "purge", pc |-> "purge_del",
               arg |-> [id |-> userPublicKey],
               loc |-> [stage |-> k, list |-> list]]]
         /\ UNCHANGED log
  ELSE IF k < Len(PurgeStages)
    THEN /\ tasks' = [tasks EXCEPT ![t] =
              [op |-> "purge", pc |-> "purge_query",
               arg |-> [id |-> userPublicKey],
               loc |-> [stage |-> k + 1, list |-> {}]]]
         /\ UNCHANGED log
  ELSE Finish(t, "ok")

\* The call, up to the query of the user's posts.
DeleteAllUserData(t, userPublicKey) ==
  /\ FreeSlot(t)
  /\ ops' = ops + 1
  /\ AfterPurgeQuery(t, userPublicKey, 1, OwnedIds("posts", userPublicKey))
  /\ UNCHANGED <<tables, everStored, now, aside>>

\* The query that opens the next stage.
PurgeQuery(t) ==
  /\ tasks[t].op = "purge" /\ tasks[t].pc = "purge_query"
  /\ LET k == tasks[t].loc.stage
     IN AfterPurgeQuery(t, tasks[t].arg.id, k, OwnedIds(PurgeStages[k], tasks[t].arg.id))
  /\ UNCHANGED <<tables, everStored, now, aside, ops>>

\* One deleteItem of the loop over the stage's query result.
PurgeDelete(t) ==
  /\ tasks[t].op = "purge" /\ tasks[t].pc = "purge_del"
  /\ LET k == tasks[t].loc.stage
         id == CHOOSE i \in tasks[t].loc.list : TRUE
         rest == tasks[t].loc.list \ {id}
     IN /\ posts' = IF k = 1 THEN DeleteRec(posts, id) ELSE posts
        /\ comments' = IF k = 2 THEN DeleteRec(comments, id) ELSE comments
        /\ votes' = IF k = 3 THEN DeleteRec(votes, id) ELSE votes
        /\ notifications' = IF k = 4 THEN DeleteRec(notifications, id)
                                     ELSE notifications
        /\ IF rest # {}
             THEN Goto(t, "purge_del", [tasks[t].loc EXCEPT !.list = rest])
           ELSE IF k < Len(PurgeStages)
             THEN Goto(t, "purge_query", [stage |-> k + 1, list |-> {}])
           ELSE Finish(t, "ok")
  /\ UNCHANGED <<everStored, now, aside, ops>>

\* ------------------------------------------------------------------- Next

\* Local calls of the store's API, and the steps of their tasks.
PostCalls == \E t \in Tasks, c \in Plaintexts, u \in LocalUsers : AddPost(t, c, u)

CommentCalls ==
  \/ \E t \in Tasks, p \in PostIds, c \in Plaintexts, u \in LocalUsers,
        pc \in {"c1", NoId} : AddComment(t, p, c, u, pc)
  \/ \E t \in Tasks : NotifyReplyGet(t) \/ NotifyReplyAdd(t)

VoteCalls ==
  \/ \E t \in Tasks, tg \in VoteTargets, v \in {1, -1}, u \in LocalUsers :
        CastVote(t, tg[1], tg[2], v, u)
  \/ \E t \in Tasks :
        \/ AddVoteDelete(t) \/ AddVoteAdd(t) \/ AddVotePut(t)
        \/ NotifyVoteGet(t) \/ NotifyVoteAdd(t)

PurgeCalls ==
  \/ \E t \in Tasks, u \in Users : DeleteAllUserData(t, u)
  \/ \E t \in Tasks : PurgeQuery(t) \/ PurgeDelete(t)

\* Steps shared by a local call and the listener of the same kind.
CommentCountSteps == \E t \in Tasks : CommentCountGet(t) \/ CommentCountPut(t)
VoteCountSteps == \E t \in Tasks : UpdateVoteCountGet(t) \/ UpdateVoteCountPut(t)

\* Overlay deliveries, and the steps of the listeners' tasks.
PostDeliveries ==
  \/ \E t \in Tasks, d \in InboundPosts \cup {NoRec} : DeliverPost(t, d)
  \/ \E t \in Tasks : OnPostAdd(t)

CommentDeliveries ==
  \/ \E t \in Tasks, d \in InboundComments \cup {NoRec} : DeliverComment(t, d)
  \/ \E t \in Tasks : OnCommentAdd(t)

VoteDeliveries ==
  \/ \E t \in Tasks, d \in InboundVotes \cup {NoRec} : DeliverVote(t, d)
  \/ \E t \in Tasks : OnVoteAdd(t)

\* The P2P service: connection calls, and the steps of initialize and of the
\* publish that ends a form handler.
P2PCalls ==
  \/ \E t \in Tasks, u \in LocalUsers : Initialize(t, u)
  \/ Disconnect
  \/ \E t \in Tasks : InitializeListen(t) \/ InitializeSync(t) \/ Publish(t)

KeyCalls == \E u \in LocalUsers : DeriveMasterKey(u)

Next ==
  \/ PostCalls \/ CommentCalls \/ VoteCalls \/ PurgeCalls
  \/ CommentCountSteps \/ VoteCountSteps
  \/ PostDeliveries \/ CommentDeliveries \/ VoteDeliveries
  \/ P2PCalls \/ KeyCalls

\* Votes only: local addVote calls and inbound vote ingestion.
NextVotes == VoteCalls \/ VoteCountSteps \/ VoteDeliveries

\* Replication only: the three listeners.
NextInbound ==
  \/ PostDeliveries \/ CommentDeliveries \/ VoteDeliveries
  \/ CommentCountSteps \/ VoteCountSteps

Spec == Init /\ [][Next]_vars
SpecVotes == Init /\ [][NextVotes]_vars
SpecInbound == Init /\ [][NextInbound]_vars

\* Authoring: the post and comment forms, with the connection and key calls.
NextCreate ==
  \/ PostCalls \/ CommentCalls \/ CommentCountSteps \/ P2PCalls \/ KeyCalls

SweepCalls ==
  \E t \in Tasks : CleanupExpiredNotifications(t) \/ CleanupDelete(t)

\* Local votes on the post, and the steps of their tasks.
PostVoteCalls ==
  \/ \E t \in Tasks, v \in {1, -1}, u \in LocalUsers :
        CastVote(t, "p1", "post", v, u)
  \/ \E t \in Tasks :
        \/ AddVoteDelete(t) \/ AddVoteAdd(t) \/ AddVotePut(t)
        \/ NotifyVoteGet(t) \/ NotifyVoteAdd(t)

\* Local votes and the sweep of expired notifications, with the clock running.
NextExpiry == PostVoteCalls \/ VoteCountSteps \/ SweepCalls \/ Tick

SpecExpiry == Init /\ [][NextExpiry]_vars

\* Local comments, with comments of other nodes arriving meanwhile.
NextComments ==
  \/ CommentCalls \/ CommentCountSteps \/ CommentDeliveries
  \/ P2PCalls \/ KeyCalls

SpecComments == Init /\ [][NextComments]_vars

SpecCreate == Init /\ [][NextCreate]_vars

\* The crypto service alone: key derivation for either identity, encryption
\* and decryption of strings.
NextCrypto ==
  \/ \E u \in Users : DeriveMasterKey(u)
  \/ \E s \in Strings : EncryptData(s)
  \/ DecryptData

SpecCrypto == Init /\ [][NextCrypto]_vars

\* One operation at a time: nothing starts while a task is in flight.
Busy == \E t \in Tasks : tasks[t] # Idle
OneAtATime(A) == A /\ (Busy => (ops' = ops /\ tasks' # tasks))

\* Votes only, one operation after the other.
NextVotesSeq ==
  \/ OneAtATime(VoteCalls)
  \/ OneAtATime(VoteCountSteps)
  \/ OneAtATime(VoteDeliveries)

SpecVotesSeq == Init /\ [][NextVotesSeq]_vars

\* The P2P service's life cycle and its periodic resync, with the clock
\* running.
NextSync ==
  \/ \E t \in Tasks, u \in LocalUsers : Initialize(t, u)
  \/ Disconnect
  \/ \E t \in Tasks : InitializeListen(t) \/ InitializeSync(t)
  \/ \E t \in Tasks : PeriodicSync(t) \/ PeriodicSyncPut(t) \/ PeriodicSyncEnd(t)
  \/ Tick

SpecSync == Init /\ [][NextSync]_vars

\* The node once the user has logged in as A: the master key is derived and
\* the P2P service is initialized.
InitLoggedIn ==
  /\ posts \in {EmptyStore} \cup {PutRec(EmptyStore, SeedPost(u)) : u \in Users}
  /\ comments = EmptyStore
  /\ votes = EmptyStore
  /\ notifications = EmptyStore
  /\ tasks = [t \in Tasks |-> Idle]
  /\ everStored = DOMAIN posts
  /\ now = 0
  /\ ops = 0
  /\ log = "none"
  /\ p2p = [userPublicKey |-> "A", isInitialized |-> TRUE, syncInterval |-> TRUE,
            listeners |-> 1]
  /\ disconnected = FALSE
  /\ masterKey = initializeMasterKey(PrivateKeyOf("A"))
  /\ plain = <<>>
  /\ envelope = NoEnvelope
  /\ opened = NotOpened

PublishSteps == \E t \in Tasks : Publish(t)

\* The inbound records that carry their author's signature.
SignedPosts ==
  {d \in InboundPosts :
     d.signature = signData(PostPayload(d), PrivateKeyOf(d.authorPublicKey))}
SignedComments ==
  {d \in InboundComments :
     d.signature = signData(CommentPayload(d), PrivateKeyOf(d.authorPublicKey))}
SignedVotes ==
  {d \in InboundVotes :
     d.signature = signData(VotePayload(d), PrivateKeyOf(d.authorPublicKey))}

SignedDeliveries ==
  \/ \E t \in Tasks, d \in SignedPosts : DeliverPost(t, d)
  \/ \E t \in Tasks, d \in SignedComments : DeliverComment(t, d)
  \/ \E t \in Tasks, d \in SignedVotes : DeliverVote(t, d)
  \/ \E t \in Tasks : OnPostAdd(t) \/ OnCommentAdd(t) \/ OnVoteAdd(t)

\* A logged-in node: local comments and votes, with posts, comments and votes
\* of other nodes arriving meanwhile.
NextMixed ==
  \/ CommentCalls \/ VoteCalls \/ CommentCountSteps \/ VoteCountSteps
  \/ SignedDeliveries \/ PublishSteps

SpecMixed == InitLoggedIn /\ [][NextMixed]_vars

\* A logged-in node: local posts, comments and votes, one operation after the
\* other.
NextLocalSeq ==
  \/ OneAtATime(PostCalls)
  \/ OneAtATime(CommentCalls)
  \/ OneAtATime(CommentCountSteps)
  \/ OneAtATime(VoteCalls)
  \/ OneAtATime(VoteCountSteps)
  \/ OneAtATime(PublishSteps)

SpecLocalSeq == InitLoggedIn /\ [][NextLocalSeq]_vars

\* A logged-in node: local posts, comments and votes and the ingestion of
\* signed comments, one operation after the other.
NextThreadSeq ==
  \/ OneAtATime(PostCalls)
  \/ OneAtATime(CommentCalls)
  \/ OneAtATime(CommentCountSteps)
  \/ OneAtATime(VoteCalls)
  \/ OneAtATime(VoteCountSteps)
  \/ OneAtATime(PublishSteps)
  \/ OneAtATime(\E t \in Tasks, d \in SignedComments : DeliverComment(t, d))
  \/ OneAtATime(\E t \in Tasks : OnCommentAdd(t))

SpecThreadSeq == InitLoggedIn /\ [][NextThreadSeq]_vars

\* Votes and purges, one operation after the other.
NextPurgeSeq ==
  \/ OneAtATime(VoteCalls)
  \/ OneAtATime(VoteCountSteps)
  \/ OneAtATime(PurgeCalls)

SpecPurgeSeq == Init /\ [][NextPurgeSeq]_vars

\* ------------------------------------------------------------- properties

ListenerOps == {"onPost", "onComment", "onVote"}

\* The store a listener task inserts into, and the string its record signs.
ListenerStore(op) ==
  IF op = "onPost" THEN posts ELSE IF op = "onComment" THEN comments ELSE votes
ListenerPayload(op, d) ==
  IF op = "onPost" THEN PostPayload(d)
  ELSE IF op = "onComment" THEN CommentPayload(d)
  ELSE VotePayload(d)

\* The record's signature is its author's over the record's own signed fields.
Genuine(payload, d) ==
  d.signature = signData(payload, PrivateKeyOf(d.authorPublicKey))

\* The counter of a post or comment that a vote of this value counts in.
CounterOf(target, value) ==
  IF value > 0 THEN target.upvotes ELSE target.downvotes

\* The vote state of (target, voter) in a votes table: 0 for no vote.
VoteValue(store, targetId, targetType, authorPublicKey) ==
  LET s == {store[i].value : i \in {j \in DOMAIN store :
              UniqueVoteKey(store[j]) = <<targetId, targetType, authorPublicKey>>}}
  IN IF s = {} THEN 0 ELSE CHOOSE x \in s : TRUE

VotesCounted(targetId, targetType, value) ==
  Cardinality({i \in DOMAIN votes :
                 /\ votes[i].targetId = targetId
                 /\ votes[i].targetType = targetType
                 /\ votes[i].value = value})

\* C1 (vote uniqueness): at every moment the votes table holds at most one
\* record per (targetId, targetType, authorPublicKey), whatever castVote calls
\* and inbound vote ingestions are interleaved.
VoteUniqueness ==
  \A i, j \in DOMAIN votes :
    UniqueVoteKey(votes[i]) = UniqueVoteKey(votes[j]) => i = j

\* An inbound vote is about to be added while a vote with another id and the
\* same (target, voter) is stored.
VoteUniquenessWitness ==
  \E t \in Tasks :
    /\ tasks[t].op = "onVote" /\ tasks[t].pc = "on_add"
    /\ \E i \in DOMAIN votes :
         /\ i # tasks[t].arg.id
         /\ UniqueVoteKey(votes[i]) = UniqueVoteKey(tasks[t].arg)

\* C2 (vote toggle): a castVote with the value of the voter's existing vote,
\* once complete, has left no vote record for (target, voter) and has lowered
\* the target's matching counter by one.
VoteToggle ==
  [][\A t \in Tasks :
       (/\ tasks[t].op = "addVote" /\ tasks[t].pc = "uvc_put"
        /\ tasks[t].loc.delta = -tasks[t].arg.value
        /\ tasks'[t] = Idle)
       => LET a == tasks[t].arg
              before == getItem(StoreOf(StoreNameOf(a.targetType)), a.targetId)
              after == IF a.targetType = "post" THEN getItem(posts', a.targetId)
                       ELSE getItem(comments', a.targetId)
          IN /\ CounterOf(after, a.value) = CounterOf(before, a.value) - 1
             /\ VoteValue(votes', a.targetId, a.targetType, a.authorPublicKey) = 0
    ]_vars

\* C3 (vote flip): a castVote with the opposite value of the voter's existing
\* vote lowers the old polarity's counter by one and raises the new polarity's
\* by one, and once complete leaves exactly one vote record for (target,
\* voter), carrying the new value.
VoteFlip ==
  [][\A t \in Tasks :
       LET a == tasks[t].arg
       IN (tasks[t].op = "addVote" /\ tasks[t].loc.delta = 2 * a.value)
          => /\ tasks[t].pc = "uvc_put" /\ tasks'[t] # tasks[t]
                => LET before == getItem(StoreOf(StoreNameOf(a.targetType)),
                                         a.targetId)
                       after == IF a.targetType = "post"
                                  THEN getItem(posts', a.targetId)
                                  ELSE getItem(comments', a.targetId)
                   IN /\ CounterOf(after, a.value) = CounterOf(before, a.value) + 1
                      /\ CounterOf(after, -a.value)
                           = CounterOf(before, -a.value) - 1
             /\ tasks[t].pc = "av_put" /\ tasks'[t] = Idle
                => {i \in DOMAIN votes' :
                      UniqueVoteKey(votes'[i]) = UniqueVoteKey(a)}
                     = {tasks[t].loc.vote.id}
                   /\ votes'[tasks[t].loc.vote.id].value = a.value
    ]_vars

\* C4 (aggregate consistency): with no operation in flight, the upvotes of
\* every stored post and comment equal the number of stored vote records on it
\* with value +1, and its downvotes the number with value -1.
AggregateConsistency ==
  ~Busy =>
    /\ \A p \in DOMAIN posts :
         /\ posts[p].upvotes = VotesCounted(p, "post", 1)
         /\ posts[p].downvotes = VotesCounted(p, "post", -1)
    /\ \A c \in DOMAIN comments :
         /\ comments[c].upvotes = VotesCounted(c, "comment", 1)
         /\ comments[c].downvotes = VotesCounted(c, "comment", -1)

\* C5 (signature validity): every stored post, comment and vote carries a
\* signature that verifies against the record's own authorPublicKey and the
\* current values of its signed fields; this includes a flipped vote.
SignatureValidity ==
  /\ \A p \in DOMAIN posts :
       verifySignature(PostPayload(posts[p]), posts[p].signature,
                       posts[p].authorPublicKey)
  /\ \A c \in DOMAIN comments :
       verifySignature(CommentPayload(comments[c]), comments[c].signature,
                       comments[c].authorPublicKey)
  /\ \A v \in DOMAIN votes :
       verifySignature(VotePayload(votes[v]), votes[v].signature,
                       votes[v].authorPublicKey)

IdempotentIngestion ==
  [][/\ \A t \in Tasks :
          (tasks[t] = Idle /\ tasks'[t].op \in ListenerOps)
            => tasks'[t].arg.id \notin DOMAIN ListenerStore(tasks'[t].op)
     /\ tasks' = tasks => UNCHANGED tables
    ]_vars

\* A delivered record has been skipped because its id is stored.
IdempotentIngestionWitness == log = "exists"

\* C8 (admitted once): an id that enters the posts, comments or votes table
\* has never been in a table before; this holds after a retraction and after
\* a purge as well.
AdmittedOnce ==
  [][/\ \A i \in DOMAIN posts' \ DOMAIN posts : i \notin everStored
     /\ \A i \in DOMAIN comments' \ DOMAIN comments : i \notin everStored
     /\ \A i \in DOMAIN votes' \ DOMAIN votes : i \notin everStored
    ]_vars

\* What a step of castVote task t may do to the vote states; mayFail admits
\* a failed call that leaves a vote of the opposite value as it was.
VoteMoves(t, mayFail) ==
  LET a == tasks[t].arg
      s == VoteValue(votes, a.targetId, a.targetType, a.authorPublicKey)
      s2 == VoteValue(votes', a.targetId, a.targetType, a.authorPublicKey)
      v == a.value
      flip == tasks[t].loc.delta = 2 * v
      expected == IF tasks[t].loc.delta = -v THEN 0 ELSE v
  IN /\ \/ s2 = s
        \/ s = 0 /\ s2 = v
        \/ s = v /\ s2 = 0
        \/ s = -v /\ s2 = v
     /\ \A tg \in VoteTargets, u \in Users :
          <<tg[1], tg[2], u>> # UniqueVoteKey(a)
            => VoteValue(votes', tg[1], tg[2], u) = VoteValue(votes, tg[1], tg[2], u)
     /\ tasks'[t] = Idle
          => \/ s2 = expected
             \/ mayFail /\ log' = "failed" /\ flip /\ s2 = -v

Notified(action, recipientPublicKey, sourcePublicKey) ==
  \E n \in DOMAIN notifications' :
    /\ notifications'[n].action = action
    /\ notifications'[n].recipientPublicKey = recipientPublicKey
    /\ notifications'[n].sourcePublicKey = sourcePublicKey

IngestionNotifies ==
  [][\A t \in Tasks :
       (tasks'[t] = Idle /\ log' = "ok")
       => /\ tasks[t].op = "onComment"
             => LET c == tasks[t].arg
                    parent == IF c.parentCommentId # NoId
                                THEN getItem(comments', c.parentCommentId)
                                ELSE getItem(posts', c.postId)
                IN (parent # NoRec /\ parent.authorPublicKey # c.authorPublicKey)
                     => Notified("reply", parent.authorPublicKey, c.authorPublicKey)
          /\ (tasks[t].op = "onVote" /\ tasks[t].arg.value = 1)
             => LET v == tasks[t].arg
                    target == IF v.targetType = "post"
                                THEN getItem(posts', v.targetId)
                                ELSE getItem(comments', v.targetId)
                IN (target # NoRec /\ target.authorPublicKey # v.authorPublicKey)
                     => Notified("upvote", target.authorPublicKey, v.authorPublicKey)
    ]_vars

NewUpvote(t) ==
  /\ tasks[t].op = "addVote"
  /\ tasks[t].loc.delta = tasks[t].arg.value
  /\ tasks[t].arg.value = 1

\* The stored record a vote call is about.
VoteTarget(a) == getItem(StoreOf(StoreNameOf(a.targetType)), a.targetId)

\* The one notification a step added is the upvote notification of task t.
UpvoteNotification(t) ==
  \E n \in DOMAIN notifications' \ DOMAIN notifications :
    /\ notifications' = PutRec(notifications, notifications'[n])
    /\ notifications'[n].action = "upvote"
    /\ notifications'[n].recipientPublicKey = VoteTarget(tasks[t].arg).authorPublicKey
    /\ notifications'[n].sourcePublicKey = tasks[t].arg.authorPublicKey
    /\ notifications'[n].targetId = tasks[t].arg.targetId
    /\ notifications'[n].isRead = FALSE

\* C11 (upvote notification rule): the notifications table changes only by
\* the last step of an addVote call that inserted a new vote of value +1 on a
\* stored target of another author, and then by exactly the notification
\* (upvote, recipient = target author, source = voter, unread); and such a
\* call does not return without having added it. So a downvote, a retraction,
\* a flip and a vote on one's own or on missing content add none.
UpvoteNotificationRule ==
  [][/\ notifications' # notifications
        => \E t \in Tasks :
             /\ NewUpvote(t)
             /\ tasks'[t] = Idle
             /\ tasks[t].loc.vote.id \in everStored \cap VoteIds
             /\ VoteTarget(tasks[t].arg) # NoRec
             /\ VoteTarget(tasks[t].arg).authorPublicKey # tasks[t].arg.authorPublicKey
             /\ UpvoteNotification(t)
     /\ \A t \in Tasks :
          (/\ NewUpvote(t)
           /\ tasks[t].pc \in {"uvc_put", "nv_get", "nv_add"}
           /\ tasks'[t] = Idle
           /\ VoteTarget(tasks[t].arg) # NoRec
           /\ VoteTarget(tasks[t].arg).authorPublicKey # tasks[t].arg.authorPublicKey)
          => UpvoteNotification(t)
    ]_vars

\* A local upvote on another author's post has returned with its notification.
UpvoteNotificationRuleWitness ==
  /\ log = "ok"
  /\ \E n \in DOMAIN notifications :
       /\ notifications[n].action = "upvote"
       /\ notifications[n].recipientPublicKey # notifications[n].sourcePublicKey
       /\ \E v \in DOMAIN votes :
            /\ votes[v].value = 1
            /\ votes[v].authorPublicKey = notifications[n].sourcePublicKey
            /\ votes[v].targetId = notifications[n].targetId

\* The record a comment answers: the parent comment of a nested reply, the
\* post of a top-level comment.
AnsweredRecord(comment) ==
  IF comment.parentCommentId = NoId
    THEN getItem(posts, comment.postId)
    ELSE getItem(comments, comment.parentCommentId)

\* C12 (reply notification rule): once addComment has stored the comment and
\* counted it, it adds exactly one notification (reply, recipient = author of
\* the post for a top-level comment and of the parent comment for a nested
\* one, source = commenter) and adds none when that record is not stored or
\* its author is the commenter; nothing else writes a notification.
ReplyNotificationRule ==
  [][/\ \A t \in Tasks :
          (tasks[t].op = "addComment" /\ tasks'[t] # tasks[t])
            => LET comment == tasks[t].arg
                   parent == AnsweredRecord(comment)
                   due == /\ parent # NoRec
                          /\ parent.authorPublicKey # comment.authorPublicKey
               IN /\ tasks[t].pc = "nr_get"
                     => /\ UNCHANGED notifications
                        /\ tasks'[t].pc = IF due THEN "nr_add" ELSE "publish"
                  /\ tasks[t].pc = "nr_add"
                     => /\ due
                        /\ tasks'[t].pc = "publish"
                        /\ \E n \in DOMAIN notifications' \ DOMAIN notifications :
                             /\ notifications' = PutRec(notifications, notifications'[n])
                             /\ notifications'[n].action = "reply"
                             /\ notifications'[n].recipientPublicKey = parent.authorPublicKey
                             /\ notifications'[n].sourcePublicKey = comment.authorPublicKey
                             /\ notifications'[n].isRead = FALSE
     /\ notifications' # notifications
          => \E t \in Tasks : tasks[t].op = "addComment" /\ tasks[t].pc = "nr_add"
                                /\ tasks'[t] # tasks[t]
    ]_vars

\* A nested reply to another author's comment has been notified to that
\* author, on a post the replier wrote or that is not stored.
ReplyNotificationRuleWitness ==
  \E n \in DOMAIN notifications :
    /\ notifications[n].action = "reply"
    /\ notifications[n].targetType = "comment"
    /\ getItem(comments, notifications[n].targetId) # NoRec
    /\ getItem(comments, notifications[n].targetId).authorPublicKey
         = notifications[n].recipientPublicKey
    /\ \A p \in DOMAIN posts :
         posts[p].authorPublicKey # notifications[n].recipientPublicKey

\* C13 (notification lifetime): a notification whose expiresAt has been
\* reached is not among what getNotifications returns for its recipient.
NotificationLifetime ==
  \A n \in DOMAIN notifications :
    now >= notifications[n].expiresAt
      => notifications[n] \notin getNotifications(notifications[n].recipientPublicKey)

\* C14 (expiry sweep): a notification is created with expiresAt = the time
\* of its creation + SevenDays; a step of a sweep started at time T deletes
\* one notification with expiresAt <= T (or none, if another sweep deleted it
\* first) and changes nothing else; when the sweep returns, no notification with expiresAt <= T is left; and a sweep
\* that finds none such, as a second sweep at the same time does, changes
\* nothing at all.
ExpirySweep ==
  [][/\ \A n \in DOMAIN notifications' \ DOMAIN notifications :
          notifications'[n].expiresAt = now + SevenDays
     /\ \A n \in DOMAIN notifications \cap DOMAIN notifications' :
          notifications'[n] = notifications[n]
     /\ \A t \in Tasks :
          /\ (tasks[t].op = "cleanup" /\ tasks'[t] # tasks[t])
               => /\ UNCHANGED <<posts, comments, votes>>
                  /\ \E n \in tasks[t].loc.list :
                       /\ n \in DOMAIN notifications
                            => notifications[n].expiresAt <= tasks[t].loc.now
                       /\ notifications' = DeleteRec(notifications, n)
                  /\ tasks'[t] = Idle
                       => \A n \in DOMAIN notifications' :
                            notifications'[n].expiresAt > tasks[t].loc.now
          /\ (tasks[t] = Idle /\ tasks'[t].op = "cleanup")
               => /\ UNCHANGED tables
                  /\ tasks'[t].loc.now = now
                  /\ tasks'[t].loc.list
                       = {n \in DOMAIN notifications : notifications[n].expiresAt <= now}
     /\ (log' = "clean" /\ log # "clean")
          => /\ UNCHANGED tables
             /\ \A n \in DOMAIN notifications : notifications[n].expiresAt > now
    ]_vars

\* A sweep has deleted a notification at the very time it expired, and a
\* second sweep at the same time has found nothing to delete.
ExpirySweepWitness ==
  /\ log = "clean"
  /\ now = SevenDays
  /\ everStored \cap NotificationIds # {}
  /\ DOMAIN notifications = {}
  /\ ~Busy

\* The identities a record is attributable to: its author, or for a
\* notification its recipient and the identity whose action it reports.
Attributed(store, i) ==
  IF "recipientPublicKey" \in DOMAIN store[i]
    THEN {store[i].recipientPublicKey, store[i].sourcePublicKey}
    ELSE {store[i].authorPublicKey}

\* A step of a purge for pk leaves the records of `store` that are not
\* attributable to pk as they are, and adds none.
PurgeKeeps(store, storeAfter, pk) ==
  /\ DOMAIN storeAfter \subseteq DOMAIN store
  /\ \A i \in DOMAIN store :
       pk \notin Attributed(store, i)
         => i \in DOMAIN storeAfter /\ storeAfter[i] = store[i]

\* C15 (purge): with one operation at a time, every step of a purge for pk
\* leaves the records attributable only to other identities as they are,
\* counters included, and when the purge returns the four tables hold no
\* record attributable to pk.
PurgeRemovesIdentity ==
  [][\A t \in Tasks :
       (tasks[t].op = "purge" /\ tasks'[t] # tasks[t])
         => LET pk == tasks[t].arg.id
            IN /\ PurgeKeeps(posts, posts', pk)
               /\ PurgeKeeps(comments, comments', pk)
               /\ PurgeKeeps(votes, votes', pk)
               /\ PurgeKeeps(notifications, notifications', pk)
               /\ tasks'[t] = Idle
                    => /\ \A i \in DOMAIN posts' : pk \notin Attributed(posts', i)
                       /\ \A i \in DOMAIN comments' : pk \notin Attributed(comments', i)
                       /\ \A i \in DOMAIN votes' : pk \notin Attributed(votes', i)
                       /\ \A i \in DOMAIN notifications' :
                            pk \notin Attributed(notifications', i)
    ]_vars

\* A genuine record with an id that is not stored passes the listener's checks.
Admissible(store, d, payload) ==
  (Genuine(payload, d) /\ d.id \notin DOMAIN store)
    => Screen(store, d, payload) = "add"

DisconnectHolds ==
  disconnected => ~p2p.isInitialized /\ ~p2p.syncInterval

\* C19 (key not initialized): while no master key has been derived, no step
\* changes a table (no post or comment inserted, no commentCount changed, no
\* notification created), no createPost / createComment gets past its
\* encryption, and each such call ends as an error.
KeyNotInitialized ==
  [][masterKey = NoKey
       => /\ UNCHANGED tables
          /\ \A t \in Tasks : tasks'[t].op \notin {"addPost", "addComment"}
          /\ (ops' # ops /\ tasks' = tasks) => log' = "failed"
    ]_vars

\* A createPost or createComment has failed for want of the master key.
KeyNotInitializedWitness == log = "failed" /\ masterKey = NoKey

\* C20 (encryption round trip): decrypting an envelope under the master key
\* that sealed it succeeds and returns the string that was encrypted;
\* decrypting it while another identity's master key is active fails.
EncryptionRoundTrip ==
  log \in {"decrypted", "decrypt_failed"}
    => IF envelope.key = masterKey
         THEN opened.ok /\ opened.text = plain
         ELSE ~opened.ok

\* Listener task t has got past its addItem and is applying the side effect
\* of admission.
Admitting(t) ==
  /\ tasks[t].op \in ListenerOps
  /\ tasks[t].pc \in {"cc_get", "cc_put", "uvc_get", "uvc_put"}

\* C21 (concurrent redelivery): when a listener callback reaches its addItem
\* for an id that is stored by then (a concurrent callback for the same id
\* inserted it first), it ends there and changes no table; so two callbacks
\* for the same id are never both applying the side effect of admission, and
\* a counter is written by a listener only for a record that is stored.
ConcurrentRedelivery ==
  /\ [](\A t \in Tasks, u \in Tasks :
          (/\ t # u /\ Admitting(t) /\ Admitting(u)
           /\ tasks[t].op = tasks[u].op)
            => tasks[t].arg.id # tasks[u].arg.id)
  /\ [][\A t \in Tasks :
          /\ (/\ tasks[t].op \in ListenerOps /\ tasks[t].pc = "on_add"
              /\ tasks'[t] # tasks[t]
              /\ tasks[t].arg.id \in DOMAIN ListenerStore(tasks[t].op))
               => UNCHANGED tables /\ tasks'[t] = Idle
          /\ (Admitting(t) /\ tasks'[t] # tasks[t] /\ posts' # posts)
               => tasks[t].arg.id \in DOMAIN ListenerStore(tasks[t].op)
       ]_vars

\* Two callbacks for the same comment both passed the existence check; one
\* has inserted it and is counting it, the other has failed at its addItem
\* and returned.
ConcurrentRedeliveryWitness ==
  /\ log = "error"
  /\ ops = 2
  /\ \E t \in Tasks :
       /\ tasks[t].op = "onComment" /\ tasks[t].pc = "cc_put"
       /\ getItem(comments, tasks[t].arg.id) = tasks[t].arg
       /\ \A u \in Tasks \ {t} : tasks[u] = Idle

\* C22 (lost update): the write of a counter update stores the target as it
\* was when the update read it, with that update's change applied, whatever
\* has been written to the target in between; so of two updates that read
\* the same target before either writes, the second write undoes the first.
LostUpdate ==
  [][\A t \in Tasks :
       (/\ tasks[t].op \in {"addVote", "onVote"} /\ tasks[t].pc = "uvc_put"
        /\ tasks'[t] # tasks[t])
         => getItem(IF tasks[t].arg.targetType = "post" THEN posts' ELSE comments',
                    tasks[t].arg.targetId)
              = ApplyVoteCount(tasks[t].loc.target, tasks[t].loc.delta)
    ]_vars

\* A local upvote of A has written the counter and goes on to its
\* notification, the ingestion of B's upvote on the same post has returned,
\* both votes are stored, and the post counts one upvote.
LostUpdateWitness ==
  \E t \in Tasks :
    /\ tasks[t].op = "addVote" /\ tasks[t].pc = "nv_get"
    /\ \A u \in Tasks \ {t} : tasks[u] = Idle
    /\ log = "ok"
    /\ getItem(votes, tasks[t].loc.vote.id) = tasks[t].loc.vote
    /\ \E v \in DOMAIN votes :
         /\ votes[v].authorPublicKey # tasks[t].arg.authorPublicKey
         /\ votes[v].targetId = tasks[t].arg.targetId
         /\ votes[v].targetType = tasks[t].arg.targetType
         /\ votes[v].value = 1
    /\ getItem(posts, tasks[t].arg.targetId) # NoRec
    /\ getItem(posts, tasks[t].arg.targetId).upvotes = 1
    /\ getItem(posts, tasks[t].arg.targetId).downvotes = 0

\* The fields of a post or comment that its signature covers, its signature,
\* and the names of its fields are the same in both records.
SameSigned(before, after) ==
  /\ DOMAIN after = DOMAIN before
  /\ \A f \in DOMAIN before \ {"upvotes", "downvotes", "commentCount"} :
       after[f] = before[f]

\* C23 (immutable fields): no step changes a field of a stored post or
\* comment other than upvotes, downvotes and commentCount, so a stored post
\* or comment whose signature verifies keeps verifying.
ImmutableFields ==
  [][/\ \A i \in DOMAIN posts \cap DOMAIN posts' :
          /\ SameSigned(posts[i], posts'[i])
          /\ verifySignature(PostPayload(posts[i]), posts[i].signature,
                             posts[i].authorPublicKey)
               => verifySignature(PostPayload(posts'[i]), posts'[i].signature,
                                  posts'[i].authorPublicKey)
     /\ \A i \in DOMAIN comments \cap DOMAIN comments' :
          /\ SameSigned(comments[i], comments'[i])
          /\ verifySignature(CommentPayload(comments[i]), comments[i].signature,
                             comments[i].authorPublicKey)
               => verifySignature(CommentPayload(comments'[i]),
                                  comments'[i].signature,
                                  comments'[i].authorPublicKey)
    ]_vars

\* A post has been voted on and commented, and still carries a signature
\* that verifies.
ImmutableFieldsWitness ==
  /\ \E i \in DOMAIN posts :
       /\ posts[i].upvotes + posts[i].downvotes > 0
       /\ posts[i].commentCount > 0
       /\ verifySignature(PostPayload(posts[i]), posts[i].signature,
                          posts[i].authorPublicKey)
  /\ ~Busy

\* C24 (resync scope): every post that a step of the periodic resync hands
\* to the overlay was written by the node's identity and created within the
\* last day, and a resync that fires while the service is not initialized
\* hands over nothing.
ResyncScope ==
  [][\A t \in Tasks :
       /\ (/\ tasks[t].op = "periodicSync" /\ tasks[t].pc = "sync_put"
           /\ tasks'[t] # tasks[t])
            => /\ tasks'[t].loc.sent.authorPublicKey = p2p.userPublicKey
               /\ tasks'[t].loc.sent.timestamp >= now - OneDay
       /\ (tasks[t] = Idle /\ ~p2p.isInitialized)
            => tasks'[t].op # "periodicSync"
    ]_vars

\* C25 (score consistency): with local createPost, createComment and castVote
\* calls run one at a time, after every call the score upvotes - downvotes of
\* every stored post and comment is the sum of the values of the votes stored
\* for it.
ScoreConsistency ==
  ~Busy =>
    /\ \A p \in DOMAIN posts :
         posts[p].upvotes - posts[p].downvotes
           = VotesCounted(p, "post", 1) - VotesCounted(p, "post", -1)
    /\ \A c \in DOMAIN comments :
         comments[c].upvotes - comments[c].downvotes
           = VotesCounted(c, "comment", 1) - VotesCounted(c, "comment", -1)

\* A vote has been cast and retracted: no vote is stored for the post, both
\* its counters are 1 and its score is 0.
ScoreConsistencyWitness ==
  /\ ~Busy
  /\ \E p \in DOMAIN posts :
       /\ posts[p].upvotes = 1 /\ posts[p].downvotes = 1
       /\ VotesCounted(p, "post", 1) = 0 /\ VotesCounted(p, "post", -1) = 0

\* C26 (counters never go backwards): no step lowers the upvotes, downvotes
\* or commentCount of a stored post.
CountersMonotone ==
  [][\A p \in DOMAIN posts \cap DOMAIN posts' :
       /\ posts'[p].upvotes >= posts[p].upvotes
       /\ posts'[p].downvotes >= posts[p].downvotes
       /\ posts'[p].commentCount >= posts[p].commentCount
    ]_vars

\* The stored comments of a post.
CommentsOf(postId) == {c \in DOMAIN comments : comments[c].postId = postId}

\* C27 (comment count): with operations run one at a time and no purge,
\* after every operation the commentCount of every stored post is the number
\* of stored comments with its postId, those created locally and those
\* admitted from the overlay alike.
CommentCount ==
  ~Busy => \A p \in DOMAIN posts :
             posts[p].commentCount = Cardinality(CommentsOf(p))

\* A post counts two comments: one by B, admitted from the overlay, and one
\* by the local user.
CommentCountWitness ==
  /\ ~Busy
  /\ \E p \in DOMAIN posts :
       /\ posts[p].commentCount = 2
       /\ \E c \in CommentsOf(p) : comments[c].authorPublicKey \notin LocalUsers
       /\ \E c \in CommentsOf(p) : comments[c].authorPublicKey \in LocalUsers

\* C28 (atomic failure of castVote): a castVote whose target is not stored
\* changes nothing in the votes table at any of its steps, and returns by
\* reporting failure.
AtomicVoteFailure ==
  [][\A t \in Tasks :
       (/\ tasks[t].op = "addVote" /\ tasks'[t] # tasks[t]
        /\ VoteTarget(tasks[t].arg) = NoRec)
         => /\ votes' = votes
            /\ tasks'[t] = Idle => log' = "failed"
    ]_vars

\* Listener task t holds a vote whose id is not stored while another stored
\* vote has its (targetId, targetType, authorPublicKey).
Conflicting(t) ==
  /\ tasks[t].op = "onVote" /\ tasks[t].pc = "on_add"
  /\ tasks[t].arg.id \notin DOMAIN votes
  /\ \E i \in DOMAIN votes : UniqueVoteKey(votes[i]) = UniqueVoteKey(tasks[t].arg)

\* C29 (conflicting remote vote): the addItem of an inbound vote with a new
\* id and the (targetId, targetType, authorPublicKey) of a stored vote ends
\* the callback and changes no table: the stored vote stays as it is, no
\* second vote is stored and no counter is written.
ConflictingVoteDropped ==
  [][\A t \in Tasks :
       (Conflicting(t) /\ tasks'[t] # tasks[t])
         => /\ UNCHANGED tables
            /\ tasks'[t] = Idle
            /\ log' = "error"
    ]_vars

\* A vote on the post is stored and counted, nothing else is in flight, and
\* the votes listener is about to add a vote of the same voter on the same
\* post under another id.
ConflictingVoteDroppedWitness ==
  \E t \in Tasks :
    /\ Conflicting(t)
    /\ \A u \in Tasks \ {t} : tasks[u] = Idle
    /\ \E i \in DOMAIN votes :
         /\ UniqueVoteKey(votes[i]) = UniqueVoteKey(tasks[t].arg)
         /\ votes[i].targetType = "post"
         /\ getItem(posts, votes[i].targetId) # NoRec
         /\ CounterOf(getItem(posts, votes[i].targetId), votes[i].value) = 1

\* C30 (single subscription): whatever initialize, disconnect and publish
\* calls have run or are running, each of 'posts', 'comments' and 'votes' has
\* at most one listener registered.
SingleSubscription == p2p.listeners <= 1

====
